---- MODULE Spec2Model ----
(***************************************************************************)
(* Model of the OLED text driver of firmware/src/oled.cpp (class OLED):    *)
(* the page/cursor addressing, the glyph stretcher, the text renderer and  *)
(* the decimal formatters, together with the display controller's page     *)
(* addressing mode behind the I2C transport.                               *)
(***************************************************************************)
EXTENDS Integers, Sequences, FiniteSets, TLC

(***************************************************************************)
(* Program constants.                                                      *)
(***************************************************************************)
OLED_PAGE == 176        \* 0xB0
OLED_MAXCOL == 128
FONT_W == 10            \* font.h: glyph width in pixel columns (fx0/fx1 hold 10)
FONT_H == 2             \* font.h: controller pages per text row
FirstChar == 32
LastChar == 137
NumPages == 8
CURSOR_ROW == 4         \* #define ROW 4 in showCursor

(***************************************************************************)
(* Bounds of the model.                                                    *)
(***************************************************************************)
MaxOps == 3             \* calls after which a behaviour makes no further call
MaxFmtOps == 1          \* calls after which a behaviour calls no further formatter
MaxSmall == 2           \* every value 0..MaxSmall is formatted
MaxLookups == 2         \* calls after which a behaviour calls lookup no more
MaxGlyph == 30          \* lookup is called with FirstChar..FirstChar+MaxGlyph

(***************************************************************************)
(* 8-bit arithmetic.                                                       *)
(***************************************************************************)
U8(x) == x % 256

RECURSIVE BitAnd(_, _)
BitAnd(a, b) ==
  IF a = 0 \/ b = 0 THEN 0
  ELSE (a % 2) * (b % 2) + 2 * BitAnd(a \div 2, b \div 2)

RECURSIVE BitOr(_, _)
BitOr(a, b) ==
  IF a = 0 THEN b
  ELSE IF b = 0 THEN a
  ELSE (IF a % 2 = 1 \/ b % 2 = 1 THEN 1 ELSE 0) + 2 * BitOr(a \div 2, b \div 2)

Pow2(k) == CASE k = 0 -> 1 [] k = 1 -> 2 [] k = 2 -> 4 [] k = 3 -> 8
             [] k = 4 -> 16 [] k = 5 -> 32 [] k = 6 -> 64 [] k = 7 -> 128

Bit(x, k) == (x \div Pow2(k)) % 2

(***************************************************************************)
(* The font table: FONT_W glyph-column bytes per character code            *)
(* FirstChar..LastChar, the space glyph blank.  The table's contents stand *)
(* for the bitmap data; between them the entries take every byte value.    *)
(***************************************************************************)
font(idx) ==
  IF idx < FONT_W THEN 0 ELSE (idx * 89 + 1) % 256

VARIABLES
  m_col, m_row,     \* logical cursor (character cell)
  oledX, oledY,     \* physical pixel column and page kept by the driver
  fx0, fx1,         \* stretched glyph: source bits 0-3 and source bits 4-7
  page, colp,       \* the controller's own page and column address pointers
  ram,              \* the controller's display memory, ram[page][column]
  undefPage,        \* what the controller does with a page-select byte above 0xB7
  bus,              \* the bus transactions of the operation that ran last
  fmt,              \* the last formatter call: the text handed to putstr, the buffer
                    \* indices written, the passes of the left-justify loop
  hist              \* the calls made on the driver since construction, in order

vars == <<m_col, m_row, oledX, oledY, fx0, fx1, page, colp, ram, undefPage,
          bus, fmt, hist>>

(***************************************************************************)
(* The driver and the controller behind it as one record, so that the      *)
(* operations compose as the calls in the code do.                         *)
(***************************************************************************)
St ==
  [m_col |-> m_col, m_row |-> m_row, oledX |-> oledX, oledY |-> oledY,
   fx0 |-> fx0, fx1 |-> fx1, page |-> page, colp |-> colp, ram |-> ram,
   undefPage |-> undefPage, bus |-> << >>]

Set(s) ==
  /\ m_col' = s.m_col
  /\ m_row' = s.m_row
  /\ oledX' = s.oledX
  /\ oledY' = s.oledY
  /\ fx0' = s.fx0
  /\ fx1' = s.fx1
  /\ page' = s.page
  /\ colp' = s.colp
  /\ ram' = s.ram
  /\ undefPage' = s.undefPage
  /\ bus' = s.bus

Txn(chan, payload, rep) == [chan |-> chan, payload |-> payload, rep |-> rep]

(***************************************************************************)
(* The controller in page addressing mode.  A command byte 0xB0..0xB7      *)
(* selects the page, 0x10..0x1F the high and 0x00..0x0F the low nibble of  *)
(* the column; a page-select byte above 0xB7 is outside the command set    *)
(* and is either ignored or decoded by its low three bits.  A data byte is *)
(* stored at the address pointers and the column pointer steps on,         *)
(* wrapping to column 0 inside the same page.                              *)
(***************************************************************************)
CtlCommand(s, b) ==
  IF b >= OLED_PAGE /\ b < OLED_PAGE + NumPages
    THEN [s EXCEPT !.page = b - OLED_PAGE]
  ELSE IF b >= OLED_PAGE + NumPages /\ b < OLED_PAGE + 16
    THEN IF s.undefPage = "masked"
           THEN [s EXCEPT !.page = (b - OLED_PAGE) % NumPages]
           ELSE s
  ELSE IF b >= 16 /\ b < 32
    THEN [s EXCEPT !.colp = ((b - 16) * 16 + (s.colp % 16)) % OLED_MAXCOL]
  ELSE IF b < 16
    THEN [s EXCEPT !.colp = (s.colp \div 16) * 16 + b]
  ELSE s

\* the data bytes d[0..n-1] (n <= 128) one after the other
CtlDataRun(s, d, n) ==
  [s EXCEPT !.ram[s.page] =
               [c \in 0..(OLED_MAXCOL - 1) |->
                  IF (c - s.colp) % OLED_MAXCOL < n
                    THEN d[(c - s.colp) % OLED_MAXCOL] ELSE @[c]],
            !.colp = (s.colp + n) % OLED_MAXCOL]

CtlData(s, d) == CtlDataRun(s, [i \in {0} |-> d], 1)

CtlZeros(s, n) ==
  [s EXCEPT !.ram[s.page] =
               [c \in 0..(OLED_MAXCOL - 1) |->
                  IF (c - s.colp) % OLED_MAXCOL < n THEN 0 ELSE @[c]],
            !.colp = (s.colp + n) % OLED_MAXCOL]

(***************************************************************************)
(* The transport: a command burst, one data byte, a run of zero bytes.     *)
(***************************************************************************)
RECURSIVE CtlCommands(_, _)
CtlCommands(s, bytes) ==
  IF bytes = << >> THEN s
  ELSE CtlCommands(CtlCommand(s, Head(bytes)), Tail(bytes))

i2c_write_cmd(s, bytes) ==
  [CtlCommands(s, bytes) EXCEPT !.bus = Append(@, Txn("command", bytes, 1))]

senddata(s, d) ==
  [CtlData(s, d) EXCEPT !.bus = Append(@, Txn("data", <<d>>, 1))]

sendzeros(s, nbytes) ==
  [CtlZeros(s, nbytes) EXCEPT !.bus = Append(@, Txn("data", <<0>>, nbytes))]

(***************************************************************************)
(* Page/cursor addressing.                                                 *)
(***************************************************************************)
setPage(s, x, y) ==
  i2c_write_cmd(s, << U8(BitOr(OLED_PAGE, y)),
                      BitOr(16, BitAnd(x, 240) \div 16),
                      BitAnd(x, 15) >>)

\* the page of a row without the fixed low bit
PageOf_noLowBit(row) == BitAnd(row * FONT_H, 6)

PageOf(row) == BitOr(BitAnd(row * FONT_H, 6), 1)

setCursor(s, col, row) ==
  LET t == [s EXCEPT !.m_row = row,
                     !.m_col = col,
                     !.oledX = U8(col * FONT_W),
                     !.oledY = PageOf(row)]
  IN  setPage(t, t.oledX, t.oledY)

\* setXY taking the page from its argument
setXY_pageArg(s, col, row) ==
  LET t == [s EXCEPT !.oledX = col,
                     !.oledY = row]
  IN  setPage(t, t.oledX, t.oledY)

setXY(s, col, row) ==
  LET t == [s EXCEPT !.oledX = col,
                     !.oledY = BitAnd(s.oledY, 6)]
  IN  setPage(t, t.oledX, t.oledY)

\* the cursor mark i2c.writecursor sends as one data burst
cursorMark == [i \in 0..(FONT_W - 5) |-> 255]

writecursor(s) ==
  [CtlDataRun(s, cursorMark, FONT_W - 4) EXCEPT
     !.bus = Append(@, Txn("data", [k \in 1..(FONT_W - 4) |-> cursorMark[k - 1]], 1))]

showCursor(s) ==
  LET s1 == setPage(s, 0, CURSOR_ROW)
      s2 == sendzeros(s1, OLED_MAXCOL)
      s3 == setPage(s2, U8(s2.oledX + 2), CURSOR_ROW)
  IN  writecursor(s3)

\* clr2eol without the zero fill of the second page
clr2eol_onePage(s) ==
  LET s1 == sendzeros(s, U8(OLED_MAXCOL - s.oledX))
  IN  setXY(s1, s1.oledX, U8(s1.oledY + 1))

clr2eol(s) ==
  LET s1 == sendzeros(s, U8(OLED_MAXCOL - s.oledX))
      s2 == setXY(s1, s1.oledX, U8(s1.oledY + 1))
  IN  sendzeros(s2, U8(OLED_MAXCOL - s2.oledX))

\* clrLine without the zero fill of the second page
clrLine_onePage(s, row) ==
  LET s1 == setCursor(s, 0, row)
      s2 == sendzeros(s1, OLED_MAXCOL)
      s3 == setXY(s2, 0, s2.oledY)
  IN  setCursor(s3, 0, row)

clrLine(s, row) ==
  LET s1 == setCursor(s, 0, row)
      s2 == sendzeros(s1, OLED_MAXCOL)
      s3 == setXY(s2, 0, s2.oledY)
      s4 == sendzeros(s3, OLED_MAXCOL)
  IN  setCursor(s4, 0, row)

RECURSIVE clrPages(_, _)
clrPages(s, p) ==
  IF p >= 8 THEN s
  ELSE clrPages(sendzeros(setPage(s, s.oledX, U8(s.oledY + p)), OLED_MAXCOL), p + 1)

clrScreen(s) ==
  LET s1 == setCursor(s, 0, 0)
      s2 == sendzeros(s1, OLED_MAXCOL)
      s3 == clrPages(s2, 1)
  IN  setCursor(s3, 0, 0)

(***************************************************************************)
(* The glyph stretcher.  stretch runs the four-step mask loop of lookup    *)
(* from the given source mask; fxLo and fxHi tabulate it for the low and   *)
(* the high nibble of every source byte.                                   *)
(***************************************************************************)
\* the mask loop with the output mask shifted by one instead of two
RECURSIVE stretch_shiftOne(_, _, _, _, _)
stretch_shiftOne(dat, mk1, mk2, dax, j) ==
  IF j >= 4 THEN dax
  ELSE stretch_shiftOne(dat, U8(mk1 * 2), U8(mk2 * 2),
                        IF BitAnd(dat, mk1) # 0 THEN BitOr(dax, mk2) ELSE dax,
                        j + 1)

RECURSIVE stretch(_, _, _, _, _)
stretch(dat, mk1, mk2, dax, j) ==
  IF j >= 4 THEN dax
  ELSE stretch(dat, U8(mk1 * 2), U8(mk2 * 4),
               IF BitAnd(dat, mk1) # 0 THEN BitOr(dax, mk2) ELSE dax,
               j + 1)

fxLo == [dat \in 0..255 |-> stretch(dat, 1, 3, 0, 0)]

fxHi == [dat \in 0..255 |-> stretch(dat, 16, 3, 0, 0)]

lookup(s, ch) ==
  [s EXCEPT !.fx0 = [i \in 0..(FONT_W - 1) |-> fxLo[font((ch - 32) * FONT_W + i)]],
            !.fx1 = [i \in 0..(FONT_W - 1) |-> fxHi[font((ch - 32) * FONT_W + i)]]]

(***************************************************************************)
(* The text renderer.                                                      *)
(***************************************************************************)
\* for (i=0; i<FONT_W; i++) senddata(fx[i]): FONT_W single-byte data writes
sendglyph(s, fx) ==
  [CtlDataRun(s, fx, FONT_W) EXCEPT
     !.bus = @ \o [k \in 1..FONT_W |-> Txn("data", <<fx[k - 1]>>, 1)]]

\* the early return of putch, with the right-edge test off by the glyph width
dropped_noWidth(s, ch) == ch = 10 \/ s.oledX > 128

\* the early return of putch: line feed, or no room for a glyph
dropped(s, ch) == ch = 10 \/ s.oledX > 128 - FONT_W

\* the substitution of putch, with the upper limit off by one
glyphCode_offByOne(ch) == IF ch < 32 \/ ch > 138 THEN 32 ELSE ch

\* the substitution of putch: a code outside the font becomes the space
glyphCode(ch) == IF ch < 32 \/ ch > 137 THEN 32 ELSE ch

\* putch sending the low-nibble half first
putch_lowFirst(s, ch) ==
  IF dropped(s, ch) THEN s
  ELSE LET c  == glyphCode(ch)
           s1 == lookup(s, c)
           s2 == sendglyph(s1, s1.fx0)
           s3 == setXY(s2, s2.oledX, s2.oledY)
           s4 == sendglyph(s3, s3.fx1)
           s5 == [s4 EXCEPT !.m_col = U8(@ + 1)]
       IN  setCursor(s5, s5.m_col, s5.m_row)

putch(s, ch) ==
  IF dropped(s, ch) THEN s
  ELSE LET c  == glyphCode(ch)
           s1 == lookup(s, c)
           s2 == sendglyph(s1, s1.fx1)
           s3 == setXY(s2, s2.oledX, s2.oledY)
           s4 == sendglyph(s3, s3.fx0)
           s5 == [s4 EXCEPT !.m_col = U8(@ + 1)]
       IN  setCursor(s5, s5.m_col, s5.m_row)

RECURSIVE putchars(_, _)
putchars(s, str) ==
  IF str = << >> THEN s
  ELSE putchars(putch(s, Head(str)), Tail(str))

putstr(s, str) == clr2eol(putchars(s, str))

printline(s, row, str) == putstr(setCursor(s, 0, row), str)

(***************************************************************************)
(* The decimal formatters.  A buffer is the local char array (tmp[i] is    *)
(* tmp[i + 1] here, NUL is 0) with the set of indices written so far; a    *)
(* write outside the array leaves the array as it is.                      *)
(***************************************************************************)
Buf(tmp) == [tmp |-> tmp, wrote |-> {}]

Store(buf, i, c) ==
  [tmp   |-> IF i >= 0 /\ i < Len(buf.tmp) THEN [buf.tmp EXCEPT ![i + 1] = c]
             ELSE buf.tmp,
   wrote |-> buf.wrote \cup {i}]

Digit(val) == 48 + (val % 10)

(***************************************************************************)
(* uint32_t and uint64_t values are kept as base-65536 limbs, the most     *)
(* significant first; DivMod is val / d and val % d by long division.      *)
(***************************************************************************)
Limb == 65536

RECURSIVE DivLimbs(_, _, _, _)
DivLimbs(limbs, d, q, r) ==
  IF limbs = << >> THEN [q |-> q, r |-> r]
  ELSE LET n == r * Limb + Head(limbs)
       IN  DivLimbs(Tail(limbs), d, Append(q, n \div d), n % d)

DivMod(limbs, d) == DivLimbs(limbs, d, << >>, 0)

IsZero(limbs) == \A k \in 1..Len(limbs) : limbs[k] = 0

Limbs32(n) == <<n \div Limb, n % Limb>>

Limbs64(n) == <<0, 0, n \div Limb, n % Limb>>

\* for (uint8_t i = ...; val; i--) { tmp[i] = digit; val /= 10; }
RECURSIVE convert(_, _, _)
convert(buf, i, val) ==
  IF val = 0 THEN buf
  ELSE convert(Store(buf, i, Digit(val)), U8(i - 1), val \div 10)

\* the same loop with the separator branch of print32
RECURSIVE convert32(_, _, _)
convert32(buf, i, val) ==
  IF IsZero(val) THEN buf
  ELSE LET sep == i = 6 \/ i = 2
           b1  == IF sep THEN Store(buf, i, 44) ELSE buf
           i1  == IF sep THEN U8(i - 1) ELSE i
           dm  == DivMod(val, 10)
       IN  convert32(Store(b1, i1, Digit(dm.r)), U8(i1 - 1), dm.q)

\* the same loop with the int index of print_freq
RECURSIVE convertFreq(_, _, _)
convertFreq(buf, i, val) ==
  IF IsZero(val) THEN buf
  ELSE LET dm == DivMod(val, 10)
       IN  convertFreq(Store(buf, i, Digit(dm.r)), i - 1, dm.q)

\* the loop body without its last assignment, which pulls the NUL in
shiftLeft_short(tmp) ==
  SubSeq(tmp, 2, Len(tmp) - 1) \o <<tmp[Len(tmp) - 1], tmp[Len(tmp)]>>

\* one pass of the left-justify loop body: tmp[k] = tmp[k+1] for k = 0..n-2,
\* the last element (the NUL) staying where it is
shiftLeft(tmp) == Append(Tail(tmp), tmp[Len(tmp)])

\* while (tmp[0] == ' ') shift; n counts the passes, the loop is cut off
\* after Len(tmp) passes
RECURSIVE leftJustify(_, _)
leftJustify(tmp, n) ==
  IF tmp[1] = 32 /\ n < Len(tmp)
    THEN leftJustify(shiftLeft(tmp), n + 1)
    ELSE [tmp |-> tmp, shifts |-> n, done |-> tmp[1] # 32]

\* the characters putstr reads: up to the first NUL, running into the
\* bytes that follow the array (tail) when the array holds none
RECURSIVE cstr(_, _)
cstr(tmp, tail) ==
  IF tmp = << >> THEN tail
  ELSE IF Head(tmp) = 0 THEN << >>
  ELSE <<Head(tmp)>> \o cstr(Tail(tmp), tail)

Blanks(n) == [k \in 1..n |-> 32]

Fmt(buf, lj, tail) ==
  [text |-> cstr(lj.tmp, tail), field |-> buf.tmp, wrote |-> buf.wrote,
   shifts |-> lj.shifts, done |-> lj.done]

NoJustify(tmp) == [tmp |-> tmp, shifts |-> 0, done |-> TRUE]

print8fmt(val) ==
  LET buf == convert(Buf(<<32, 32, 48, 0>>), 2, val)
  IN  Fmt(buf, leftJustify(buf.tmp, 0), << >>)

print16fmt(val) ==
  LET buf == convert(Buf(<<32, 32, 32, 32, 48, 0>>), 4, val)
  IN  Fmt(buf, leftJustify(buf.tmp, 0), << >>)

print32fmt(val, tail) ==
  LET buf == convert32(Buf(Blanks(15)), 9, val)
  IN  Fmt(buf, NoJustify(buf.tmp), tail)

print_freqfmt(val) ==
  LET buf == convertFreq(Buf(Blanks(8) \o <<0>>), 7, DivMod(val, 100).q)
  IN  Fmt(buf, NoJustify(buf.tmp), << >>)

print8(s, val) == putstr(s, print8fmt(val).text)

print16(s, val) == putstr(s, print16fmt(val).text)

print32(s, val, tail) == putstr(setCursor(s, 0, 1), print32fmt(val, tail).text)

print_freq(s, val) == putstr(s, print_freqfmt(val).text)

(***************************************************************************)
(* Inputs of the model.                                                    *)
(***************************************************************************)
Cells == {<<0, 1>>, <<11, 3>>}    \* in-bounds cells <<col, row>>: first, last
LineRows == {1}                   \* the row printline is called with
ClrRows == {1}                    \* the row clrLine is called with
Chars == {10, 31, 65, 138}        \* line feed, FirstChar - 1, 'A', LastChar + 1
LookupChars == FirstChar..(FirstChar + MaxGlyph)
Strs == {<<72, 105, 33>>, <<79>>} \* "Hi!" and "O"
XYCols == {0, 37, 127}            \* pixel columns setXY is called with
XYPages == {1, 6}                 \* page arguments setXY is called with
Uninit == {0, 255}                \* values of a member nothing has assigned yet
UndefPage == {"ignored", "masked"}
StackTails == {<< >>, <<63>>}     \* what may follow an array without NUL

Vals8 == (0..MaxSmall) \cup {9, 10, 99, 100, 199, 200, 255}
Vals16 == (0..MaxSmall) \cup {9, 10, 99, 100, 999, 1000, 9999, 10000, 65535}
Vals32 ==
  {Limbs32(n) : n \in (0..MaxSmall) \cup {999, 1000, 1234567, 99999999, 100000000}}
    \cup {<<65535, 65535>>}                       \* 4294967295
ValsFreq ==
  {Limbs64(n) : n \in (0..MaxSmall) \cup {99, 100, 1234567, 700000000}}
    \cup {<<65535, 65535, 65535, 65535>>}         \* 2^64 - 1

oled_init ==
  <<213, 128, 168, 63, 211, 0, 64, 141, 20, 32, 2, 164, 161, 200,
    218, 18, 129, 128, 219, 64, 217, 241, 176, 166, 175>>

Op(name, arg) == [op |-> name, arg |-> arg]

NoFmt == [text |-> << >>, field |-> << >>, wrote |-> {}, shifts |-> 0, done |-> TRUE]

(***************************************************************************)
(* Construction: OLED() assigns nothing, so the cursor members hold any    *)
(* value, fx0 and fx1 their zero initialisers; the controller comes up     *)
(* with its pointers reset and its memory not cleared.                     *)
(***************************************************************************)
Init ==
  /\ m_col \in Uninit
  /\ m_row \in Uninit
  /\ oledX \in Uninit
  /\ oledY \in Uninit
  /\ fx0 = [i \in 0..9 |-> 0]
  /\ fx1 = [i \in 0..9 |-> 0]
  /\ page = 0
  /\ colp = 0
  /\ ram = [p \in 0..(NumPages - 1) |-> [c \in 0..(OLED_MAXCOL - 1) |-> 255]]
  /\ undefPage \in UndefPage
  /\ bus = << >>
  /\ fmt = NoFmt
  /\ hist = << >>

begin(s) ==
  clrScreen([s EXCEPT !.page = 0,
                      !.bus = Append(@, Txn("command", oled_init, 1))])

Begun == hist # << >>

Call(name, arg, s) ==
  /\ Set(s)
  /\ hist' = Append(hist, Op(name, arg))

Begin ==
  /\ hist = << >>
  /\ Call("begin", << >>, begin(St))
  /\ fmt' = NoFmt

CanCall == Begun /\ Len(hist) <= MaxOps

SetCursor(col, row) ==
  /\ CanCall
  /\ Call("setCursor", <<col, row>>, setCursor(St, col, row))
  /\ fmt' = NoFmt

Putch(ch) ==
  /\ CanCall
  /\ Call("putch", <<ch>>, putch(St, ch))
  /\ fmt' = NoFmt

Putstr(str) ==
  /\ CanCall
  /\ Call("putstr", str, putstr(St, str))
  /\ fmt' = NoFmt

Clr2eol ==
  /\ CanCall
  /\ Call("clr2eol", << >>, clr2eol(St))
  /\ fmt' = NoFmt

Printline(row, str) ==
  /\ CanCall
  /\ Set(printline(St, row, str))
  /\ hist' = hist \o <<Op("setCursor", <<0, row>>), Op("putstr", str)>>
  /\ fmt' = NoFmt

ClrLine(row) ==
  /\ CanCall
  /\ Call("clrLine", <<row>>, clrLine(St, row))
  /\ fmt' = NoFmt

ClrScreen ==
  /\ CanCall
  /\ Call("clrScreen", << >>, clrScreen(St))
  /\ fmt' = NoFmt

ShowCursor ==
  /\ CanCall
  /\ Call("showCursor", << >>, showCursor(St))
  /\ fmt' = NoFmt

Next ==
  \/ Begin
  \/ \E cell \in Cells : SetCursor(cell[1], cell[2])
  \/ \E ch \in Chars : Putch(ch)
  \/ \E str \in Strs : Putstr(str)
  \/ \E row \in LineRows, str \in Strs : Printline(row, str)
  \/ Clr2eol
  \/ \E row \in ClrRows : ClrLine(row)
  \/ ClrScreen
  \/ ShowCursor

Spec == Init /\ [][Next]_vars

(***************************************************************************)
(* The formatters, each called on the driver as begin() left it or as an   *)
(* earlier formatter call left it.                                         *)
(***************************************************************************)
CanFormat == Begun /\ Len(hist) <= MaxFmtOps

Print8(val) ==
  /\ CanFormat
  /\ Call("print8", <<val>>, print8(St, val))
  /\ fmt' = print8fmt(val)

Print16(val) ==
  /\ CanFormat
  /\ Call("print16", <<val>>, print16(St, val))
  /\ fmt' = print16fmt(val)

Print32(val, tail) ==
  /\ CanFormat
  /\ Call("print32", val, print32(St, val, tail))
  /\ fmt' = print32fmt(val, tail)

PrintFreq(val) ==
  /\ CanFormat
  /\ Call("print_freq", val, print_freq(St, val))
  /\ fmt' = print_freqfmt(val)

NextFmt ==
  \/ Begin
  \/ \E val \in Vals8 : Print8(val)
  \/ \E val \in Vals16 : Print16(val)
  \/ \E val \in Vals32, tail \in StackTails : Print32(val, tail)
  \/ \E val \in ValsFreq : PrintFreq(val)

SpecFmt == Init /\ [][NextFmt]_vars

(***************************************************************************)
(* The stretcher on its own: lookup called for one character after the     *)
(* other, as putch calls it.                                               *)
(***************************************************************************)
Lookup(ch) ==
  /\ Begun
  /\ Len(hist) <= MaxLookups
  /\ Call("lookup", <<ch>>, lookup(St, ch))
  /\ fmt' = NoFmt

NextLookup ==
  \/ Begin
  \/ \E ch \in LookupChars : Lookup(ch)

SpecLookup == Init /\ [][NextLookup]_vars

(***************************************************************************)
(* The addressing primitives on their own: setXY called with any pixel     *)
(* column and page argument, between calls of setCursor.                   *)
(***************************************************************************)
SetXY(col, row) ==
  /\ CanCall
  /\ Call("setXY", <<col, row>>, setXY(St, col, row))
  /\ fmt' = NoFmt

NextAddr ==
  \/ Begin
  \/ \E cell \in Cells : SetCursor(cell[1], cell[2])
  \/ \E col \in XYCols, row \in XYPages : SetXY(col, row)

SpecAddr == Init /\ [][NextAddr]_vars

(***************************************************************************)
(* Vocabulary of the properties.                                           *)
(***************************************************************************)
LastIs(name) == hist # << >> /\ hist[Len(hist)].op = name

LastArg == hist[Len(hist)].arg

\* the step taken is a call of the named operation
Calls(name) ==
  /\ Len(hist') = Len(hist) + 1
  /\ hist'[Len(hist')].op = name

CallArg == hist'[Len(hist')].arg

AllCols == 0..(OLED_MAXCOL - 1)

AllPages == 0..(NumPages - 1)

\* f(row) = ((row*FONT_H) & 0x06) | 0x01, by arithmetic
ExpectedPage(row) == (((row * FONT_H) \div 2) % 4) * 2 + 1

\* the two controller pages of a text row
RowPages(row) == {ExpectedPage(row), ExpectedPage(row) - 1}

RECURSIVE Numeral(_)
Numeral(v) ==
  IF v < 10 THEN <<48 + v>> ELSE Append(Numeral(v \div 10), 48 + (v % 10))

(***************************************************************************)
(* C1: clrScreen (and begin, which ends with it) leaves every byte of      *)
(* every page 0..7 zero and the cursor at cell (0,0) with oledX = 0 and    *)
(* oledY = PageOf(0).                                                      *)
(***************************************************************************)
C1_ClrScreenClearsAll ==
  (LastIs("clrScreen") \/ LastIs("begin")) =>
     /\ \A p \in AllPages : \A c \in AllCols : ram[p][c] = 0
     /\ m_col = 0 /\ m_row = 0 /\ oledX = 0 /\ oledY = ExpectedPage(0)

(***************************************************************************)
(* C2: after setCursor(col,row); putstr(s1); setCursor(col,row);           *)
(* putstr(s2) with s2 shorter than s1, both pages of the row are zero from *)
(* the end of the last glyph of s2 to column 127.                          *)
(***************************************************************************)
\* the column after the glyphs putstr renders from column col
RECURSIVE EndCol(_, _)
EndCol(col, str) ==
  IF str = << >> THEN col
  ELSE IF Head(str) = 10 \/ col * FONT_W > 128 - FONT_W THEN EndCol(col, Tail(str))
  ELSE EndCol(col + 1, Tail(str))

C2_Case ==
  /\ Len(hist) >= 4
  /\ LET n == Len(hist)
     IN  /\ hist[n - 3].op = "setCursor"
         /\ hist[n - 2].op = "putstr"
         /\ hist[n - 1] = hist[n - 3]
         /\ hist[n].op = "putstr"
         /\ Len(hist[n].arg) < Len(hist[n - 2].arg)

C2_NoResidue ==
  C2_Case =>
    LET cell == hist[Len(hist) - 1].arg
        endX == EndCol(cell[1], LastArg) * FONT_W
    IN  \A p \in RowPages(cell[2]) : \A c \in AllCols :
          c >= endX => ram[p][c] = 0

\* the longer string was drawn from column 0 and the shorter one ends
\* inside it, its own glyph still on the display
C2_Witness ==
  /\ C2_Case
  /\ hist[Len(hist) - 1].arg[1] = 0
  /\ Len(LastArg) = 1
  /\ \E p \in RowPages(hist[Len(hist) - 1].arg[2]) :
       \E c \in 0..(FONT_W - 1) : ram[p][c] # 0

(***************************************************************************)
(* C3: a putch of the line feed, or one entered with oledX > 128 - FONT_W, *)
(* sends nothing on the bus and changes neither the cursor nor the         *)
(* display.                                                                *)
(***************************************************************************)
C3_DroppedPutchIsNoOp ==
  [][(Calls("putch") /\ (CallArg[1] = 10 \/ oledX > 128 - FONT_W)) =>
       /\ bus' = << >>
       /\ UNCHANGED <<m_col, m_row, oledX, oledY, fx0, fx1, page, colp, ram>>]_vars

\* a printable character was dropped at the right edge
C3_Witness ==
  /\ LastIs("putch")
  /\ LastArg[1] = 65
  /\ oledX > 128 - FONT_W
  /\ bus = << >>

\* the line feed was dropped in mid-line
C3_WitnessLF ==
  /\ LastIs("putch")
  /\ LastArg[1] = 10
  /\ oledX <= 128 - FONT_W
  /\ bus = << >>

(***************************************************************************)
(* C4: putch of a code outside FirstChar..LastChar has the bus             *)
(* transactions, the resulting display and the resulting cursor that       *)
(* putch(' ') has from the same state.                                     *)
(***************************************************************************)
OutOfRange(ch) == ch < FirstChar \/ ch > LastChar

LikePutchOfSpace ==
  LET t == putch(St, 32)
  IN  /\ bus' = t.bus
      /\ ram' = t.ram
      /\ <<page', colp'>> = <<t.page, t.colp>>
      /\ <<m_col', m_row', oledX', oledY'>> = <<t.m_col, t.m_row, t.oledX, t.oledY>>

C4_OutOfRangeAsSpace ==
  [][(Calls("putch") /\ OutOfRange(CallArg[1])) => LikePutchOfSpace]_vars

\* C4 as amended: every code outside FirstChar..LastChar except the line
\* feed is rendered as putch(' ') is
C4_OutOfRangeButLFAsSpace ==
  [][(Calls("putch") /\ OutOfRange(CallArg[1]) /\ CallArg[1] # 10)
        => LikePutchOfSpace]_vars

\* a code above LastChar was drawn as a glyph over a display that was not
\* blank there
C4_Witness ==
  /\ LastIs("putch")
  /\ LastArg[1] = 138
  /\ Len(bus) = 2 * FONT_W + 2
  /\ Len(hist) >= 3
  /\ hist[Len(hist) - 1].op = "setCursor"
  /\ hist[Len(hist) - 2].op = "putstr"

\* a code below FirstChar was drawn as a glyph
C4_WitnessLow ==
  /\ LastIs("putch")
  /\ LastArg[1] = 31
  /\ Len(bus) = 2 * FONT_W + 2

(***************************************************************************)
(* C5: after lookup(ch), for every glyph column i and every source bit k,  *)
(* bits 2k mod 8 and 2k+1 mod 8 of fx0[i] (k < 4) or fx1[i] (k >= 4) equal *)
(* bit k of the font byte, so no other bit is set; the result is a         *)
(* function of the font bytes alone and fx0, fx1 keep their ten entries.   *)
(***************************************************************************)
C5_StretchBitExact ==
  LastIs("lookup") =>
    /\ DOMAIN fx0 = 0..9 /\ DOMAIN fx1 = 0..9
    /\ \A i \in 0..(FONT_W - 1) :
         LET b == font((LastArg[1] - 32) * FONT_W + i)
         IN  /\ fx0[i] \in 0..255 /\ fx1[i] \in 0..255
             /\ \A k \in 0..7 :
                  LET out == IF k < 4 THEN fx0[i] ELSE fx1[i]
                  IN  /\ Bit(out, (2 * k) % 8) = Bit(b, k)
                      /\ Bit(out, (2 * k + 1) % 8) = Bit(b, k)

\* a second lookup in a row, of a glyph with a column whose two halves
\* both mix set and clear bits
C5_Witness ==
  /\ LastIs("lookup")
  /\ Len(hist) = 3
  /\ hist[2].op = "lookup"
  /\ hist[2].arg # LastArg
  /\ \E i \in 0..(FONT_W - 1) : fx0[i] \notin {0, 255} /\ fx1[i] \notin {0, 255}

(***************************************************************************)
(* C6: setCursor(col,row) with the cell inside the screen sets m_col,      *)
(* m_row, oledX = col*FONT_W and oledY = f(row) and sends one command of   *)
(* three bytes, 0xB0|oledY, 0x10|(oledX>>4), oledX&0x0F, from which oledX  *)
(* and oledY decode back.                                                  *)
(***************************************************************************)
C6_SetCursorRoundTrip ==
  LastIs("setCursor") =>
    LET col == LastArg[1]
        row == LastArg[2]
    IN  /\ m_col = col /\ m_row = row
        /\ oledX = col * FONT_W
        /\ oledY = ExpectedPage(row)
        /\ Len(bus) = 1
        /\ bus[1].chan = "command" /\ bus[1].rep = 1
        /\ bus[1].payload = <<176 + oledY, 16 + (oledX \div 16), oledX % 16>>
        /\ LET b == bus[1].payload
           IN  /\ (b[2] % 16) * 16 + b[3] = oledX
               /\ b[1] % 16 = oledY

\* the cursor was set to the last cell of the last row
C6_Witness ==
  /\ LastIs("setCursor")
  /\ LastArg = <<11, 3>>
  /\ oledX = 110

(***************************************************************************)
(* C7: clr2eol zeroes the columns from oledX to 127 on the two pages of    *)
(* the current row and returns with oledY as it was at entry and m_col,    *)
(* m_row, oledX unchanged.                                                 *)
(***************************************************************************)
C7_Clr2eolKeepsPage ==
  [][Calls("clr2eol") =>
       /\ oledY' = oledY
       /\ UNCHANGED <<m_col, m_row, oledX>>
       /\ \A p \in RowPages(m_row) : \A c \in AllCols :
            c >= oledX => ram'[p][c] = 0]_vars

(***************************************************************************)
(* C8: after begin(), at the return of every operation oledX is            *)
(* m_col*FONT_W without wrap-around and inside the screen width, and oledY *)
(* is f(m_row).                                                            *)
(***************************************************************************)
C8_CursorConsistent ==
  Begun =>
    /\ oledX = m_col * FONT_W
    /\ oledX < OLED_MAXCOL
    /\ oledY = ExpectedPage(m_row)

(***************************************************************************)
(* C9: print32(0) hands putstr the text "0" and print32(1234567) the text  *)
(* "1,234,567", without a leading blank.                                   *)
(***************************************************************************)
C9_Print32Text ==
  LastIs("print32") =>
    /\ LastArg = Limbs32(0) => fmt.text = <<48>>
    /\ LastArg = Limbs32(1234567) =>
         fmt.text = <<49, 44, 50, 51, 52, 44, 53, 54, 55>>

(***************************************************************************)
(* C10: print8(v) and print16(v) build the decimal numeral of v            *)
(* right-justified in a field of 3 (5) characters, the left-justify loop   *)
(* ends, and the text handed to putstr is the numeral with no leading      *)
(* blank.                                                                  *)
(***************************************************************************)
NumeralIn(width) ==
  LET num == Numeral(LastArg[1])
  IN  /\ fmt.field = Blanks(width - Len(num)) \o num \o <<0>>
      /\ fmt.done
      /\ fmt.shifts = width - Len(num)
      /\ fmt.text = num

\* what print8fmt / print16fmt return for the value v
NumeralOf(f, v, width) ==
  LET num == Numeral(v)
  IN  /\ f.field = Blanks(width - Len(num)) \o num \o <<0>>
      /\ f.done
      /\ f.shifts = width - Len(num)
      /\ f.text = num

C10_Print8And16 ==
  /\ LastIs("print8") => NumeralIn(3)
  /\ LastIs("print16") => NumeralIn(5)
  /\ LastIs("begin") =>
       /\ \A v \in 0..255 : NumeralOf(print8fmt(v), v, 3)
       /\ \A v \in 0..65535 : NumeralOf(print16fmt(v), v, 5)

\* print16(0): four blanks were shifted out and "0" was drawn
C10_Witness ==
  /\ LastIs("print16")
  /\ LastArg = <<0>>
  /\ fmt.shifts = 4
  /\ fmt.text = <<48>>
  /\ m_col = 1

(***************************************************************************)
(* C11: print_freq(v) hands putstr the decimal numeral of floor(v/100),    *)
(* without separators and without a leading blank; for floor(v/100) = 0    *)
(* the text is the single digit "0".                                       *)
(***************************************************************************)
\* the value of limbs whose upper limbs are zero
SmallVal(limbs) == limbs[Len(limbs) - 1] * Limb + limbs[Len(limbs)]

IsSmall(limbs) ==
  /\ \A k \in 1..(Len(limbs) - 2) : limbs[k] = 0
  /\ limbs[Len(limbs) - 1] < 32768

C11_PrintFreqText ==
  (LastIs("print_freq") /\ IsSmall(LastArg)) =>
     fmt.text = Numeral(SmallVal(LastArg) \div 100)

(***************************************************************************)
(* C12: a putch that is not dropped sends FONT_W single data bytes, one    *)
(* addressing command for the other page of the row at the same pixel      *)
(* column, FONT_W single data bytes, and one addressing command for the    *)
(* cell (m_col + 1, m_row); m_col grows by one and m_row stays.  As        *)
(* claimed the first data bytes are those stretched from source bits 0-3   *)
(* and the second those from bits 4-7; in the code it is the other way     *)
(* round.                                                                  *)
(***************************************************************************)
\* a nibble with every bit doubled: bit i becomes bits 2i and 2i+1
Doubled(n) ==
  (n % 2) * 3 + ((n \div 2) % 2) * 12 + ((n \div 4) % 2) * 48 + ((n \div 8) % 2) * 192

\* the glyph column bytes drawn for the character code ch
GlyphBytes(ch) ==
  LET c == IF ch < FirstChar \/ ch > LastChar THEN FirstChar ELSE ch
  IN  [i \in 0..(FONT_W - 1) |-> font((c - FirstChar) * FONT_W + i)]

LowHalf(ch) == [i \in 0..(FONT_W - 1) |-> Doubled(GlyphBytes(ch)[i] % 16)]

HighHalf(ch) == [i \in 0..(FONT_W - 1) |-> Doubled(GlyphBytes(ch)[i] \div 16)]

GlyphTxns(half) == [k \in 1..FONT_W |-> Txn("data", <<half[k - 1]>>, 1)]

AddrTxn(pg, x) == Txn("command", <<OLED_PAGE + pg, 16 + (x \div 16), x % 16>>, 1)

\* the step is a putch of ch that is not dropped
Draws(ch) == Calls("putch") /\ CallArg = <<ch>> /\ ~dropped(St, ch)

PutchSends(ch, first, second) ==
  /\ bus' = GlyphTxns(first)
               \o <<AddrTxn(ExpectedPage(m_row) - 1, oledX)>>
               \o GlyphTxns(second)
               \o <<AddrTxn(ExpectedPage(m_row), (m_col + 1) * FONT_W)>>
  /\ m_col' = m_col + 1
  /\ m_row' = m_row

C12_LowHalfFirst ==
  [][\A ch \in Chars : Draws(ch) => PutchSends(ch, LowHalf(ch), HighHalf(ch))]_vars

C12_HighHalfFirst ==
  [][\A ch \in Chars : Draws(ch) => PutchSends(ch, HighHalf(ch), LowHalf(ch))]_vars

\* 'A' was drawn: 2*FONT_W data bytes and two commands went out, the
\* first byte from the high nibble, and the two halves differ
C12_Witness ==
  /\ LastIs("putch")
  /\ LastArg = <<65>>
  /\ Len(bus) = 2 * FONT_W + 2
  /\ bus[1] = Txn("data", <<HighHalf(65)[0]>>, 1)
  /\ bus[FONT_W + 2] = Txn("data", <<LowHalf(65)[0]>>, 1)
  /\ HighHalf(65) # LowHalf(65)

(***************************************************************************)
(* C13: clrLine(row), from any cursor state, leaves all 128 columns of the *)
(* two pages of text row `row` zero and every other page as it was, and    *)
(* returns with the cursor at cell (0, row), oledX = 0 and oledY = f(row). *)
(***************************************************************************)
TextRows == 0..(NumPages \div FONT_H - 1)

\* t is s after clrLine(row)
ClrLineEffect(s, t, row) ==
  /\ \A p \in AllPages :
       IF p \in RowPages(row)
         THEN \A c \in AllCols : t.ram[p][c] = 0
         ELSE t.ram[p] = s.ram[p]
  /\ t.m_col = 0
  /\ t.m_row = row
  /\ t.oledX = 0
  /\ t.oledY = ExpectedPage(row)

C13_ClrLineFrame ==
  [][/\ \A row \in ClrRows :
          (Calls("clrLine") /\ CallArg = <<row>>) => ClrLineEffect(St, St', row)
     /\ \A row \in TextRows : ClrLineEffect(St, clrLine(St, row), row)]_vars

\* printline(1, "Hi!") drew on row 1 and clrLine(1) wiped it, while page 0
\* still holds what it held at power-up
C13_Witness ==
  /\ LastIs("clrLine")
  /\ LastArg = <<1>>
  /\ Len(hist) = 4
  /\ hist[2] = Op("setCursor", <<0, 1>>)
  /\ hist[3] = Op("putstr", <<72, 105, 33>>)
  /\ \A p \in RowPages(1) : \A c \in AllCols : ram[p][c] = 0
  /\ \E c \in AllCols : ram[0][c] # 0
  /\ <<m_col, m_row, oledX, oledY>> = <<0, 1, 0, 3>>

(***************************************************************************)
(* C14: setXY(col, row) leaves m_col and m_row alone, makes oledX the col  *)
(* argument unscaled and sends one addressing command for that column.  As *)
(* claimed the page it addresses keeps the low bit of oledY, the 0x01 that *)
(* setCursor puts there; in the code setXY clears that bit, addresses the  *)
(* even page oledY & 0x06 and does not use its row argument.               *)
(***************************************************************************)
\* the step is setXY(col, row), leaving oledY = pg and addressing that page
SetXYTo(pg) ==
  /\ UNCHANGED <<m_col, m_row>>
  /\ oledX' = CallArg[1]
  /\ oledY' = pg
  /\ bus' = <<AddrTxn(pg, CallArg[1])>>
  /\ page' = pg
  /\ colp' = CallArg[1]

C14_SetXYKeepsLowBit ==
  [][Calls("setXY") =>
       \E pg \in AllPages : pg % 2 = oledY % 2 /\ SetXYTo(pg)]_vars

C14_SetXYClearsLowBit ==
  [][Calls("setXY") => SetXYTo(((oledY \div 2) % 4) * 2)]_vars

\* setCursor(0,1) put the cursor on page 3; setXY(37, 6) moved the pixel
\* column to 37 and the page to 2, the cell still being (0,1)
C14_Witness ==
  /\ LastIs("setXY")
  /\ LastArg = <<37, 6>>
  /\ Len(hist) = 3
  /\ hist[2] = Op("setCursor", <<0, 1>>)
  /\ <<m_col, m_row, oledX, oledY>> = <<0, 1, 37, 2>>
  /\ <<page, colp>> = <<2, 37>>

(***************************************************************************)
(* C15: whenever a putch that is not dropped starts, the controller's      *)
(* address pointer stands at page f(m_row), column m_col*FONT_W, and the   *)
(* putch changes display memory only in the two pages of text row m_row at *)
(* the columns m_col*FONT_W .. m_col*FONT_W + FONT_W - 1.                  *)
(***************************************************************************)
CellCols == {c \in AllCols : c >= m_col * FONT_W /\ c < m_col * FONT_W + FONT_W}

C15_AddressedBeforeDraw ==
  [][\A ch \in Chars :
       Draws(ch) =>
          /\ page = ExpectedPage(m_row)
          /\ colp = m_col * FONT_W
          /\ \A p \in AllPages : \A c \in AllCols :
               (p \notin RowPages(m_row) \/ c \notin CellCols) =>
                  ram'[p][c] = ram[p][c]]_vars

(***************************************************************************)
(* C16: every addressing command an operation sends has a page-select byte *)
(* in 0xB0..0xB7 (page 0..7) and column nibble bytes that encode a column  *)
(* in 0..127.                                                              *)
(***************************************************************************)
\* the three-byte bursts setPage sends
IsAddressing(txn) == txn.chan = "command" /\ Len(txn.payload) = 3

C16_ValidAddressing ==
  \A k \in 1..Len(bus) :
     IsAddressing(bus[k]) =>
        LET b == bus[k].payload
        IN  /\ b[1] >= OLED_PAGE
            /\ b[1] <= OLED_PAGE + NumPages - 1
            /\ b[2] >= 16 /\ b[2] <= 31
            /\ b[3] >= 0 /\ b[3] <= 15
            /\ (b[2] - 16) * 16 + b[3] < OLED_MAXCOL

(***************************************************************************)
(* C17: every write of a formatter into its local buffer stays inside its  *)
(* field: print8 writes only indices 0..2, print16 only 0..4, print32 only *)
(* 0..9 and print_freq only 0..7.                                          *)
(***************************************************************************)
C17_WritesInsideField ==
  /\ LastIs("print8") => fmt.wrote \subseteq 0..2
  /\ LastIs("print16") => fmt.wrote \subseteq 0..4
  /\ LastIs("print32") => fmt.wrote \subseteq 0..9
  /\ LastIs("print_freq") => fmt.wrote \subseteq 0..7

====
